---- MODULE Spec2Model ----
(***************************************************************************)
(* Model of scripts/dataloader.py (TurbulenceDataset: index construction   *)
(* and sample access) and of the sampling loop of scripts/validation.py    *)
(* (validation_step).                                                      *)
(*                                                                         *)
(* Directory names are sequences of characters (characters are small       *)
(* numbers), so that Python's substring test `item in topDir` and the      *)
(* lexicographic list.sort() are computed as Python computes them.         *)
(* A simulation directory sim_NNNNNN is identified by its number; the      *)
(* zero padded names sort in numeric order.                                *)
(***************************************************************************)
EXTENDS Integers, Sequences, FiniteSets, TLC

\* ------------------------------------------------------------------ bounds
\* frames 0 .. NumFrames-1 are the per-frame files a simulation can hold, and
\* frame filters range over 0 .. NumFrames
NumFrames == 5
\* sequenceLength entries are (seqLength, seqSkip) in 1..MaxSeqLength x 1..MaxSeqSkip
MaxSeqLength == 2
MaxSeqSkip == 2
\* every category folder holds the simulations sim_0 .. sim_(NumSims-1)
NumSims == 2
\* __getitem__ is called with the indices 0 .. MaxIndex-1 (those the dataset has)
MaxIndex == 3
\* sample accesses are followed until MaxWarnings warnings have been printed
MaxWarnings == 2
\* a validation sequence holds 1 .. MaxT frames, and NumSequences sequences
\* are sampled (min of the test set size and config.validation.n_val_samples)
MaxT == 4
NumSequences == 2

\* ------------------------------------------------------------------ names
NameA == <<1>>
NameB == <<2>>
NameAB == <<1, 2>>
NameC == <<3>>

\* the velocity field is always loaded; density / pressure on request
AllFields == {"velocity", "density", "pressure"}
FieldArgs == {"dens", "pres"}
\* "drag" stands for any name that __getitem__ does not know
ParamArgs == {"rey", "mach", "zslice", "drag"}

VARIABLES
    \* constructor arguments (self.*), fixed at construction
    dataDirs, filterTop, excludeFilterTop, filterSim, excludefilterSim,
    filterFrame, sequenceLength, randSeqOffset, simFieldsArg, simParams,
    \* the file system: disk.top[dataDir] is the set of entries of a data
    \* directory, disk.missing the per-frame files that do not exist
    disk,
    \* self.dataPaths
    dataPaths,
    \* position of __init__ in its loops, and its outcome
    pc, raised, dirIdx, topIdx, simIdx, match,
    \* the category folders reaching line 87 ("Top folder loaded") and the
    \* simulations reaching line 116 ("Sim loaded"), in the order they are
    \* reached; a simulation is logged with the values of the local variables
    \* currentDir, minFrame, maxFrame, seqLength, seqSkip used for it
    loadedTops, loadedSims,
    \* sample access: the latest __getitem__ call and an earlier one the
    \* caller still holds
    last, kept,
    \* self.transform, and the number of "no data transformations" warnings
    \* printed so far
    transform, warnings,
    \* validation_step: the sequence d, the prediction buffer, the loop
    \* variables s and i, config.model.input_steps, the position in the
    \* sampling loop, and the model invocations and buffer writes of the
    \* current sequence
    d, prediction, inputSteps, s, i, vpc, modelCalls, writes

cfgVars == <<dataDirs, filterTop, excludeFilterTop, filterSim, excludefilterSim,
             filterFrame, sequenceLength, randSeqOffset, simFieldsArg, simParams, disk>>
loopVars == <<pc, raised, dirIdx, topIdx, simIdx, match, loadedTops, loadedSims>>
getVars == <<last, kept, transform, warnings>>
rolloutVars == <<d, prediction, inputSteps, s, i, vpc, modelCalls, writes>>
vars == <<cfgVars, dataPaths, loopVars, getVars, rolloutVars>>

\* ------------------------------------------------------------------ helpers
Min(x, y) == IF x < y THEN x ELSE y

\* Python: item in topDir (substring test on strings)
IsSubstring(item, name) ==
    \E n \in 0..(Len(name) - Len(item)) : SubSeq(name, n + 1, n + Len(item)) = item

\* Python: string comparison used by list.sort()
LexLess(a, b) ==
    \E k \in 1..(Min(Len(a), Len(b)) + 1) :
        /\ \A j \in 1..(k - 1) : a[j] = b[j]
        /\ \/ (k = Len(a) + 1 /\ k <= Len(b))
           \/ (k <= Len(a) /\ k <= Len(b) /\ a[k] < b[k])

\* topDirs = os.listdir(dataDir); topDirs.sort()
RECURSIVE SortNames(_)
SortNames(S) ==
    IF S = {} THEN <<>>
    ELSE LET m == CHOOSE x \in S : \A y \in S \ {x} : LexLess(x, y)
         IN  <<m>> \o SortNames(S \ {m})

\* sims = os.listdir(simDir); sims.sort(): the simulation folders in numeric
\* order, followed here by one entry that is no directory
SimEntries == [k \in 1..(NumSims + 1) |-> [num |-> k - 1, isDir |-> k <= NumSims]]

\* self.simFields as built by lines 46-50
SimFields ==
    <<"velocity">> \o (IF "dens" \in simFieldsArg THEN <<"density">> ELSE <<>>)
                   \o (IF "pres" \in simFieldsArg THEN <<"pressure">> ELSE <<>>)

SeqToSet(q) == {q[k] : k \in 1..Len(q)}

\* os.path.isfile(currentDir/<field>_<frame>.npz)
IsFile(dir, field, frame) ==
    /\ frame \in 0..(NumFrames - 1)
    /\ <<dir, field, frame>> \notin disk.missing

\* Python list indexing: a negative index counts from the end
InRange(list, n) == n < Len(list) /\ n >= -Len(list)
PyIndex(list, n) == IF n >= 0 THEN list[n + 1] ELSE list[Len(list) + n + 1]

\* range(start, stop, step) for step >= 1
PyRange(start, stop, step) == {f \in start..(stop - 1) : (f - start) % step = 0}


\* ------------------------------------------------------------------ __init__
CurDataDir == dataDirs[dirIdx]
TopDirs == SortNames(disk.top[CurDataDir])
TopDir == TopDirs[topIdx]

\* any( item in topDir for item in filterTop )
AnyMatch(name) == \E n \in 1..Len(filterTop) : IsSubstring(filterTop[n], name)

TopSkippedFlipped(name) == filterTop # <<>> /\ (excludeFilterTop # AnyMatch(name))

\* lines 69-72: the folder is passed over (continue)
TopSkipped(name) == filterTop # <<>> /\ (excludeFilterTop = AnyMatch(name))

\* line 76
NeedsMatch == Len(filterSim) > 1 \/ Len(filterFrame) > 1

LastMatch(name) ==
    IF AnyMatch(name)
    THEN (CHOOSE n \in 1..Len(filterTop) :
             /\ IsSubstring(filterTop[n], name)
             /\ \A j \in (n + 1)..Len(filterTop) : ~IsSubstring(filterTop[j], name)) - 1
    ELSE -1

\* lines 77-80: index of the first filterTop entry contained in the name, or -1
FirstMatch(name) ==
    IF AnyMatch(name)
    THEN (CHOOSE n \in 1..Len(filterTop) :
             /\ IsSubstring(filterTop[n], name)
             /\ \A j \in 1..(n - 1) : ~IsSubstring(filterTop[j], name)) - 1
    ELSE -1

\* lines 99-102 / 104-107
SimInside(entry, simNum) ==
    IF entry.kind = "tuple" THEN simNum >= entry.lo /\ simNum < entry.hi
    ELSE simNum \in entry.elems

\* the index applied to filterSim, filterFrame and sequenceLength
SimFilterIndex == IF Len(filterSim) = 1 THEN 0 ELSE match
FrameIndex == IF Len(filterFrame) = 1 THEN 0 ELSE match
SeqIndex == IF Len(sequenceLength) = 1 THEN 0 ELSE match

\* lines 96-110: the simulation is passed over (continue)
SimSkipped(simNum) ==
    /\ Len(filterSim) > 0
    /\ SimInside(PyIndex(filterSim, SimFilterIndex), simNum) = excludefilterSim

\* the frames of one window: range(seqStart, seqStart+seqLength*seqSkip, seqSkip)
WindowFrames(seqStart, seqLength, seqSkip) ==
    PyRange(seqStart, seqStart + seqLength * seqSkip, seqSkip)

\* line 120: the step of range(minFrame, maxFrame, seqLength*seqSkip)
SeqStepNoSkip(seqLength, seqSkip) == seqLength

SeqStep(seqLength, seqSkip) == seqLength * seqSkip

IncompleteAtEnd(seqStart, maxF, seqLength, seqSkip) ==
    seqStart + seqLength * seqSkip >= maxF

\* lines 124-126: the window runs past maxFrame
Incomplete(seqStart, maxF, seqLength, seqSkip) ==
    seqStart + seqLength * seqSkip > maxF

WindowFirstFrameMissing(dir, seqStart, seqLength, seqSkip) ==
    \E field \in SeqToSet(SimFields) : ~IsFile(dir, field, seqStart)

\* lines 128-131: some checked file of the window is missing
WindowFileMissing(dir, seqStart, seqLength, seqSkip) ==
    \E frame \in WindowFrames(seqStart, seqLength, seqSkip) :
        \E field \in SeqToSet(SimFields) : ~IsFile(dir, field, frame)

\* lines 120-141: the windows appended for one simulation from seqStart on,
\* and whether the loop ended in FileNotFoundError
RECURSIVE Windows(_, _, _, _, _)
Windows(dir, seqStart, maxF, seqLength, seqSkip) ==
    IF seqStart >= maxF THEN [paths |-> <<>>, err |-> FALSE]
    ELSE IF Incomplete(seqStart, maxF, seqLength, seqSkip)
         THEN [paths |-> <<>>, err |-> FALSE]
    ELSE IF WindowFileMissing(dir, seqStart, seqLength, seqSkip)
         THEN [paths |-> <<>>, err |-> TRUE]
    ELSE LET rest == Windows(dir, seqStart + SeqStep(seqLength, seqSkip), maxF,
                             seqLength, seqSkip)
         IN  [paths |-> <<<<dir, seqStart, seqStart + seqLength * seqSkip, seqSkip>>>>
                          \o rest.paths,
              err |-> rest.err]

Raise(what) ==
    /\ pc' = "error"
    /\ raised' = what

\* lines 68-72: a top level folder rejected by filterTop
SkipTopDir ==
    /\ pc = "init" /\ dirIdx <= Len(dataDirs) /\ topIdx <= Len(TopDirs) /\ simIdx = 0
    /\ TopSkipped(TopDir)
    /\ topIdx' = topIdx + 1
    /\ UNCHANGED <<cfgVars, dataPaths, pc, raised, dirIdx, simIdx, match,
                   loadedTops, loadedSims, getVars, rolloutVars>>

\* lines 68-88: a top level folder that is kept; its filter index is resolved
EnterTopDir ==
    /\ pc = "init" /\ dirIdx <= Len(dataDirs) /\ topIdx <= Len(TopDirs) /\ simIdx = 0
    /\ ~TopSkipped(TopDir)
    /\ match' = IF NeedsMatch THEN FirstMatch(TopDir) ELSE -1
    /\ IF NeedsMatch /\ match' < 0
       THEN /\ Raise("AssertionError")
            /\ UNCHANGED <<simIdx, loadedTops>>
       ELSE /\ simIdx' = 1
            /\ loadedTops' = Append(loadedTops, <<CurDataDir, TopDir>>)
            /\ UNCHANGED <<pc, raised>>
    /\ UNCHANGED <<cfgVars, dataPaths, dirIdx, topIdx, loadedSims, getVars, rolloutVars>>

\* lines 91-141: one entry of the category folder
ProcessSim ==
    /\ pc = "init" /\ dirIdx <= Len(dataDirs) /\ topIdx <= Len(TopDirs)
    /\ simIdx \in 1..Len(SimEntries)
    /\ LET sim == SimEntries[simIdx]
           currentDir == <<CurDataDir, TopDir, sim.num>>
       IN  IF ~sim.isDir
           THEN /\ simIdx' = simIdx + 1
                /\ UNCHANGED <<dataPaths, pc, raised, loadedSims>>
           ELSE IF Len(filterSim) > 0 /\ ~InRange(filterSim, SimFilterIndex)
           THEN /\ Raise("IndexError")
                /\ UNCHANGED <<dataPaths, simIdx, loadedSims>>
           ELSE IF SimSkipped(sim.num)
           THEN /\ simIdx' = simIdx + 1
                /\ UNCHANGED <<dataPaths, pc, raised, loadedSims>>
           ELSE IF ~InRange(filterFrame, FrameIndex) \/ ~InRange(sequenceLength, SeqIndex)
           THEN /\ Raise("IndexError")
                /\ UNCHANGED <<dataPaths, simIdx, loadedSims>>
           ELSE LET minFrame == PyIndex(filterFrame, FrameIndex)[1]
                    maxFrame == PyIndex(filterFrame, FrameIndex)[2]
                    seqLength == PyIndex(sequenceLength, SeqIndex)[1]
                    seqSkip == PyIndex(sequenceLength, SeqIndex)[2]
                    w == Windows(currentDir, minFrame, maxFrame, seqLength, seqSkip)
                IN  /\ loadedSims' = Append(loadedSims,
                           [currentDir |-> currentDir, minFrame |-> minFrame,
                            maxFrame |-> maxFrame, seqLength |-> seqLength,
                            seqSkip |-> seqSkip])
                    /\ dataPaths' = dataPaths \o w.paths
                    /\ IF w.err
                       THEN Raise("FileNotFoundError") /\ UNCHANGED simIdx
                       ELSE simIdx' = simIdx + 1 /\ UNCHANGED <<pc, raised>>
    /\ UNCHANGED <<cfgVars, dirIdx, topIdx, match, loadedTops, getVars, rolloutVars>>

\* line 91: the entries of the category folder are exhausted
NextTopDir ==
    /\ pc = "init" /\ dirIdx <= Len(dataDirs) /\ topIdx <= Len(TopDirs)
    /\ simIdx > Len(SimEntries)
    /\ topIdx' = topIdx + 1
    /\ simIdx' = 0
    /\ UNCHANGED <<cfgVars, dataPaths, pc, raised, dirIdx, match,
                   loadedTops, loadedSims, getVars, rolloutVars>>

\* line 68: the entries of the data directory are exhausted
NextDataDir ==
    /\ pc = "init" /\ dirIdx <= Len(dataDirs) /\ topIdx > Len(TopDirs)
    /\ dirIdx' = dirIdx + 1
    /\ topIdx' = 1
    /\ UNCHANGED <<cfgVars, dataPaths, pc, raised, simIdx, match,
                   loadedTops, loadedSims, getVars, rolloutVars>>

\* line 63/143: all data directories are done, the dataset exists
FinishInit ==
    /\ pc = "init" /\ dirIdx > Len(dataDirs)
    /\ pc' = "ready"
    /\ UNCHANGED <<cfgVars, dataPaths, raised, dirIdx, topIdx, simIdx, match,
                   loadedTops, loadedSims, getVars, rolloutVars>>

\* __len__
DatasetLen == Len(dataPaths)


\* ------------------------------------------------------------------ __getitem__
NoCall == [idx |-> -1, sample |-> [status |-> "none"]]

\* line 155: halfSeq = int((seqEnd-seqStart) / 2)
HalfSeq(w) == (w[3] - w[2]) \div 2

\* line 157
OffsetAccepted(w, offset) ==
    /\ w[2] + offset >= filterFrame[1][1]
    /\ w[3] + offset < filterFrame[1][2]

Shifted(w, offset) ==
    IF OffsetAccepted(w, offset) THEN <<w[1], w[2] + offset, w[3] + offset, w[4]>> ELSE w

DrawnWindowsAlways(w) == {Shifted(w, offset) : offset \in (-HalfSeq(w))..HalfSeq(w)}

\* lines 152-159: the windows (basePath, seqStart, seqEnd, seqSkip) one call may load
DrawnWindows(w) ==
    IF randSeqOffset
    THEN {Shifted(w, offset) : offset \in (-HalfSeq(w))..HalfSeq(w)}
    ELSE {w}

\* lines 180-191: the columns of simParameters, the empty dict, or ValueError
SimParameters ==
    IF "rey" \in simParams /\ "mach" \in simParams
    THEN [kind |-> "array", cols |-> <<"Reynolds Number", "Mach Number">>]
    ELSE IF "rey" \in simParams THEN [kind |-> "array", cols |-> <<"Reynolds Number">>]
    ELSE IF "mach" \in simParams THEN [kind |-> "array", cols |-> <<"Mach Number">>]
    ELSE IF "zslice" \in simParams THEN [kind |-> "array", cols |-> <<"Z Slice">>]
    ELSE IF simParams = {} THEN [kind |-> "dict", cols |-> <<>>]
    ELSE [kind |-> "ValueError", cols |-> <<>>]

\* lines 204-207: the files read, one per frame and field
LoadedFiles(w) ==
    {<<w[1], field, frame>> : field \in SeqToSet(SimFields), frame \in PyRange(w[2], w[3], w[4])}

\* the channels of one field array (velocity holds the x and y component)
FieldChannels(field) ==
    IF field = "velocity" THEN <<"velocity-x", "velocity-y">> ELSE <<field>>

\* lines 209-225: np.concatenate(loadedFields, axis=1)
RECURSIVE DataChannels(_)
DataChannels(fields) ==
    IF fields = <<>> THEN SimParameters.cols
    ELSE FieldChannels(Head(fields)) \o DataChannels(Tail(fields))

\* a sample that no transform has touched carries no statistics
NotNormalized == [applied |-> FALSE, data |-> <<>>, params |-> <<>>]

ErrorSample(what) ==
    [status |-> what, window |-> <<>>, files |-> {}, data |-> <<>>,
     simParameters |-> [kind |-> "none", cols |-> <<>>], path |-> <<>>,
     norm |-> NotNormalized]

\* lines 161-238: the sample built from the window w
Sample(w) ==
    IF SimParameters.kind = "ValueError" THEN ErrorSample("ValueError")
    ELSE IF \E f \in LoadedFiles(w) : ~IsFile(f[1], f[2], f[3])
         THEN ErrorSample("FileNotFoundError")
    ELSE [status |-> "ok",
          window |-> <<w[2], w[3], w[4]>>,
          files |-> LoadedFiles(w),
          data |-> DataChannels(SimFields),
          simParameters |-> SimParameters,
          path |-> <<w[1], SimFields, w[2], w[3] - w[4], w[4]>>,
          norm |-> NotNormalized]

\* ------------------------------------------------------------------ DataTransforms
NoTransform == [active |-> FALSE, simFields |-> {}, simParams |-> {}]

\* lines 279-288: the indices into normMean / normStd
\* (0 velocity-x, 1 velocity-y, 2 density, 3 pressure, 4 Reynolds, 5 Mach)
FilterList(t) ==
    <<0, 1>> \o (IF "dens" \in t.simFields THEN <<2>> ELSE <<>>)
             \o (IF "pres" \in t.simFields THEN <<3>> ELSE <<>>)
             \o (IF "rey" \in t.simParams THEN <<4>> ELSE <<>>)
             \o (IF "mach" \in t.simParams THEN <<5>> ELSE <<>>)

\* Python: arr[-n:], the last n entries (all of them for n = 0 or n > len)
LastEntries(arr, n) ==
    IF n = 0 \/ n >= Len(arr) THEN arr ELSE SubSeq(arr, Len(arr) - n + 1, Len(arr))

\* line 289: filterArr[-len(self.simParams):]
FilterArrParam(t) == LastEntries(FilterList(t), Cardinality(t.simParams))

\* numpy broadcasting of m columns (or channels) against n statistics
Broadcastable(m, n) == m = n \/ m = 1 \/ n = 1

\* (x - mean) / std along the column axis: the column and the statistic that
\* meet in every column of the result
Normalized(cols, stats) ==
    [k \in 1..(IF Len(cols) > Len(stats) THEN Len(cols) ELSE Len(stats)) |->
        [of |-> cols[IF Len(cols) = 1 THEN 1 ELSE k],
         stat |-> stats[IF Len(stats) = 1 THEN 1 ELSE k]]]

\* lines 270-308: DataTransforms.__call__
Transformed(t, sample) ==
    IF t.simParams # {} /\ sample.simParameters.kind = "array"
          /\ ~Broadcastable(Len(sample.simParameters.cols), Len(FilterArrParam(t)))
    THEN ErrorSample("BroadcastError")
    ELSE IF ~Broadcastable(Len(sample.data), Len(FilterList(t)))
    THEN ErrorSample("BroadcastError")
    ELSE [sample EXCEPT !.norm =
            [applied |-> TRUE,
             data |-> Normalized(sample.data, FilterList(t)),
             params |-> IF t.simParams # {} /\ sample.simParameters.kind = "array"
                        THEN Normalized(sample.simParameters.cols, FilterArrParam(t))
                        ELSE <<>>]]

\* lines 233-238: what __getitem__ returns for the window w
Returned(w) ==
    IF transform.active /\ Sample(w).status = "ok"
    THEN Transformed(transform, Sample(w))
    ELSE Sample(w)

\* lines 235-236: the warnings printed once the call for w is over
Warned(w) ==
    IF ~transform.active /\ Sample(w).status = "ok" THEN warnings + 1 ELSE warnings

GetItem(idx) ==
    /\ pc = "ready"
    /\ idx \in 0..(DatasetLen - 1)
    /\ warnings < MaxWarnings
    /\ \E w \in DrawnWindows(dataPaths[idx + 1]) :
        /\ last' = [idx |-> idx, sample |-> Returned(w)]
        /\ warnings' = Warned(w)
    /\ \E hold \in BOOLEAN : kept' = IF hold THEN last ELSE kept
    /\ UNCHANGED <<cfgVars, dataPaths, loopVars, transform, rolloutVars>>

\* dataset.transform = DataTransforms(simFields=..., simParams=...) with the
\* fields and parameters of the dataset, assigned before the first access
SetTransform ==
    /\ pc = "ready" /\ ~transform.active /\ last = NoCall
    /\ transform' = [active |-> TRUE, simFields |-> simFieldsArg, simParams |-> simParams]
    /\ UNCHANGED <<cfgVars, dataPaths, loopVars, last, kept, warnings, rolloutVars>>

\* ------------------------------------------------------------------ inputs
FrameRanges == {r \in (0..NumFrames) \X (0..NumFrames) : r[1] <= r[2]}
SeqPairs == (1..MaxSeqLength) \X (1..MaxSeqSkip)
SimDirs(tops) == {<<t[1], t[2], n>> : t \in tops, n \in 0..(NumSims - 1)}
FilesOf(tops) == SimDirs(tops) \X AllFields \X (0..(NumFrames - 1))

TupleFilter == [kind |-> "tuple", lo |-> 0, hi |-> 1, elems |-> {}]
ListFilter == [kind |-> "list", lo |-> 0, hi |-> 0, elems |-> {1}]

InitLoop ==
    /\ dataPaths = <<>>
    /\ pc = "init" /\ raised = "none"
    /\ dirIdx = 1 /\ topIdx = 1 /\ simIdx = 0 /\ match = -1
    /\ loadedTops = <<>> /\ loadedSims = <<>>
    /\ last = NoCall /\ kept = NoCall
    /\ transform = NoTransform /\ warnings = 0

\* one category, every frame range and window shape, at most one missing file
InitWindow ==
    /\ dataDirs = <<1>>
    /\ \E m \in {{}} \cup {{f} : f \in FilesOf({<<1, NameA>>})} :
           disk = [top |-> [root \in {1} |-> {NameA}], missing |-> m]
    /\ filterTop = <<>> /\ excludeFilterTop = FALSE
    /\ filterSim = <<>> /\ excludefilterSim = FALSE
    /\ filterFrame \in {<<r>> : r \in FrameRanges}
    /\ sequenceLength \in {<<p>> : p \in SeqPairs}
    /\ randSeqOffset = FALSE
    /\ simFieldsArg \in SUBSET FieldArgs
    /\ simParams = {}

\* two data directories with several categories, every filter mode and
\* every shape (shared / per category) of the three filter lists
InitFilter ==
    /\ dataDirs = <<1, 2>>
    /\ disk = [top |-> [root \in {1, 2} |-> IF root = 1 THEN {NameC, NameB, NameAB, NameA}
                                                  ELSE {NameAB, NameA}],
               missing |-> {}]
    /\ filterTop \in {<<>>, <<NameA>>, <<NameB>>, <<NameA, NameB>>, <<NameB, NameA>>}
    /\ excludeFilterTop \in BOOLEAN
    /\ filterSim \in {<<>>, <<TupleFilter>>, <<ListFilter>>,
                       <<TupleFilter, ListFilter>>, <<ListFilter, TupleFilter>>}
    /\ excludefilterSim \in BOOLEAN
    /\ filterFrame \in {<<<<0, 2>>>>, <<<<0, 2>>, <<1, 3>>>>, <<<<1, 3>>, <<0, 2>>>>}
    /\ sequenceLength \in {<<<<1, 1>>>>, <<<<1, 1>>, <<2, 1>>>>, <<<<2, 1>>, <<1, 1>>>>}
    /\ randSeqOffset = FALSE
    /\ simFieldsArg = {}
    /\ simParams = {}

\* every requested parameter set and field set
InitParams ==
    /\ dataDirs = <<1>>
    /\ disk = [top |-> [root \in {1} |-> {NameA}], missing |-> {}]
    /\ filterTop = <<NameA>> /\ excludeFilterTop = FALSE
    /\ filterSim = <<TupleFilter>> /\ excludefilterSim = FALSE
    /\ filterFrame = <<<<0, NumFrames>>>>
    /\ sequenceLength \in {<<p>> : p \in SeqPairs}
    /\ randSeqOffset = FALSE
    /\ simFieldsArg \in SUBSET FieldArgs
    /\ simParams \in SUBSET ParamArgs

\* randomized offsets over a folder with at most one missing file
InitOffsetMissing ==
    /\ dataDirs = <<1>>
    /\ \E m \in {{}} \cup {{f} : f \in FilesOf({<<1, NameA>>})} :
           disk = [top |-> [root \in {1} |-> {NameA}], missing |-> m]
    /\ filterTop = <<>> /\ excludeFilterTop = FALSE
    /\ filterSim = <<TupleFilter>> /\ excludefilterSim = FALSE
    /\ filterFrame \in {<<<<0, NumFrames>>>>, <<<<1, NumFrames>>>>}
    /\ sequenceLength \in {<<p>> : p \in SeqPairs}
    /\ randSeqOffset = TRUE
    /\ simFieldsArg = {}
    /\ simParams = {}

\* randomized offsets, with a shared or a per category frame filter
InitOffset ==
    /\ dataDirs = <<1>>
    /\ disk = [top |-> [root \in {1} |-> {NameA, NameB}], missing |-> {}]
    /\ filterTop = <<NameA, NameB>> /\ excludeFilterTop = FALSE
    /\ filterSim = <<TupleFilter>> /\ excludefilterSim = FALSE
    /\ LET R == {<<0, 2>>, <<0, NumFrames - 1>>, <<1, NumFrames>>}
       IN  filterFrame \in {<<r>> : r \in R} \cup {<<r, q>> : r \in R, q \in R}
    /\ sequenceLength \in {<<p>> : p \in SeqPairs}
    /\ randSeqOffset = TRUE
    /\ simFieldsArg = {}
    /\ simParams = {}

\* validation_step is not running
RolloutIdle ==
    /\ d = <<>> /\ prediction = <<>> /\ inputSteps = 0 /\ s = 0 /\ i = 0
    /\ vpc = "idle" /\ modelCalls = <<>> /\ writes = <<>>

Init == InitLoop /\ RolloutIdle /\ (InitWindow \/ InitFilter \/ InitParams \/ InitOffset \/ InitOffsetMissing)

Next ==
    \/ SkipTopDir
    \/ EnterTopDir
    \/ ProcessSim
    \/ NextTopDir
    \/ NextDataDir
    \/ FinishInit
    \/ SetTransform
    \/ \E idx \in 0..(MaxIndex - 1) : GetItem(idx)

Spec == Init /\ [][Next]_vars

\* ------------------------------------------------------------------ validation_step
\* the values a frame can take (d is standardized data, zeros_like gives 0)
FrameValues == {0, 1}

CondPositionsNewestFirst(k) == [n \in 1..inputSteps |-> k - n]

\* lines 242-245: the positions of the prediction buffer stacked into cond,
\* prediction[:, i-j : i-(j-1)] for j = inputSteps .. 1
CondPositions(k) == [n \in 1..inputSteps |-> k - (inputSteps - n + 1)]

\* line 247: the frame handed to the model as data, d[:, i-1:i]
DataInput(k) == [buffer |-> "d", pos |-> k - 1, value |-> d[k - 1]]

\* lines 225-235: the next sequence is drawn and the buffer is zeroed
LoadSample ==
    /\ vpc = "fetch" /\ s < NumSequences
    /\ \E sample \in [DOMAIN d -> FrameValues] : d' = sample
    /\ prediction' = [k \in DOMAIN d |-> 0]
    /\ i' = 0
    /\ modelCalls' = <<>> /\ writes' = <<>>
    /\ vpc' = "warmup"
    /\ UNCHANGED <<inputSteps, s>>
    /\ UNCHANGED <<cfgVars, dataPaths, loopVars, getVars>>

\* lines 237-238: no prediction of the first steps
WarmupStep ==
    /\ vpc = "warmup" /\ i < inputSteps
    /\ prediction' = [prediction EXCEPT ![i] = d[i]]
    /\ writes' = Append(writes, i)
    /\ i' = i + 1
    /\ vpc' = IF i + 1 < inputSteps THEN "warmup" ELSE "auto"
    /\ UNCHANGED <<d, inputSteps, s, modelCalls>>
    /\ UNCHANGED <<cfgVars, dataPaths, loopVars, getVars>>

\* lines 240-254: one auto-regressive step; the model samples its output
ModelStep ==
    /\ vpc = "auto" /\ i < Cardinality(DOMAIN d)
    /\ \E result \in FrameValues :
        /\ modelCalls' = Append(modelCalls,
               [i |-> i,
                condPos |-> CondPositions(i),
                cond |-> [n \in 1..inputSteps |-> prediction[CondPositions(i)[n]]],
                data |-> DataInput(i),
                result |-> result])
        /\ prediction' = [prediction EXCEPT ![i] = result]
    /\ writes' = Append(writes, i)
    /\ i' = i + 1
    /\ UNCHANGED <<d, inputSteps, s, vpc>>
    /\ UNCHANGED <<cfgVars, dataPaths, loopVars, getVars>>

\* lines 256-258: the sequence is finished
FinishSequence ==
    /\ vpc = "auto" /\ i >= Cardinality(DOMAIN d)
    /\ s' = s + 1
    /\ vpc' = "fetch"
    /\ UNCHANGED <<d, prediction, inputSteps, i, modelCalls, writes>>
    /\ UNCHANGED <<cfgVars, dataPaths, loopVars, getVars>>

\* lines 226-227 / 260-263: the sampling loop ends
EndSampling ==
    /\ vpc = "fetch" /\ s >= NumSequences
    /\ vpc' = "done"
    /\ UNCHANGED <<d, prediction, inputSteps, s, i, modelCalls, writes>>
    /\ UNCHANGED <<cfgVars, dataPaths, loopVars, getVars>>

\* no dataset of dataloader.py takes part in validation_step
DatasetIdle ==
    /\ dataDirs = <<>> /\ disk = [top |-> <<>>, missing |-> {}]
    /\ filterTop = <<>> /\ excludeFilterTop = FALSE
    /\ filterSim = <<>> /\ excludefilterSim = FALSE
    /\ filterFrame = <<>> /\ sequenceLength = <<>>
    /\ randSeqOffset = FALSE /\ simFieldsArg = {} /\ simParams = {}
    /\ dataPaths = <<>>
    /\ pc = "idle" /\ raised = "none"
    /\ dirIdx = 1 /\ topIdx = 1 /\ simIdx = 0 /\ match = -1
    /\ loadedTops = <<>> /\ loadedSims = <<>>
    /\ last = NoCall /\ kept = NoCall
    /\ transform = NoTransform /\ warnings = 0

\* sequences of T frames with 0 < inputSteps <= T
InitRollout ==
    /\ DatasetIdle
    /\ \E T \in 1..MaxT :
        /\ d = [k \in 0..(T - 1) |-> 0]
        /\ prediction = [k \in 0..(T - 1) |-> 0]
        /\ inputSteps \in 1..T
    /\ s = 0 /\ i = 0
    /\ vpc = "fetch"
    /\ modelCalls = <<>> /\ writes = <<>>

NextRollout ==
    \/ LoadSample
    \/ WarmupStep
    \/ ModelStep
    \/ FinishSequence
    \/ EndSampling

SpecRollout == InitRollout /\ [][NextRollout]_vars


\* ================================================================== claims
\* the windows stored for one simulation folder
WindowsOf(dir) == {k \in 1..Len(dataPaths) : dataPaths[k][1] = dir}

\* every per-frame file (every field, frames 0 .. NumFrames-1) of the folder exists
AllFramesExist(dir) == \A f \in disk.missing : f[1] # dir

\* floor((maxFrame - minFrame) / (seqLength * seqSkip))
FloorCount(sim) == (sim.maxFrame - sim.minFrame) \div (sim.seqLength * sim.seqSkip)

RECURSIVE SumWindows(_)
SumWindows(sims) ==
    IF sims = <<>> THEN 0
    ELSE Cardinality(WindowsOf(Head(sims).currentDir)) + SumWindows(Tail(sims))

\* C1: a kept simulation whose per-frame files all exist gets exactly
\* floor((maxFrame - minFrame) / (seqLength * seqSkip)) windows, and the length
\* of the finished dataset is the number of windows appended over the kept
\* simulations.
C1_WindowCount ==
    /\ \A k \in 1..Len(loadedSims) :
           AllFramesExist(loadedSims[k].currentDir)
           => Cardinality(WindowsOf(loadedSims[k].currentDir)) = FloorCount(loadedSims[k])
    /\ pc = "ready" => DatasetLen = SumWindows(loadedSims)

\* a finished dataset with a simulation whose frame range leaves a remainder
C1_Witness ==
    /\ pc = "ready"
    /\ \E k \in 1..Len(loadedSims) :
        /\ AllFramesExist(loadedSims[k].currentDir)
        /\ (loadedSims[k].maxFrame - loadedSims[k].minFrame)
               % (loadedSims[k].seqLength * loadedSims[k].seqSkip) # 0
        /\ Cardinality(WindowsOf(loadedSims[k].currentDir)) >= 2

\* the start frames of the complete windows of a logged simulation
CompleteStarts(sim) ==
    {b \in PyRange(sim.minFrame, sim.maxFrame, sim.seqLength * sim.seqSkip) :
        b + sim.seqLength * sim.seqSkip <= sim.maxFrame}

\* the start frame of the incomplete trailing window, if there is one
TrailingStarts(sim) ==
    {b \in PyRange(sim.minFrame, sim.maxFrame, sim.seqLength * sim.seqSkip) :
        b + sim.seqLength * sim.seqSkip > sim.maxFrame}

\* a selected field's file is missing at a frame position of the window at b
MissingIn(sim, b) ==
    \E frame \in PyRange(b, b + sim.seqLength * sim.seqSkip, sim.seqSkip) :
        \E field \in SeqToSet(SimFields) :
            <<sim.currentDir, field, frame>> \in disk.missing

\* C2: a missing file of a selected field at a frame position of a complete
\* window aborts construction with FileNotFoundError; an incomplete trailing
\* window never raises, whatever is missing in it; so in a finished dataset
\* every file of every stored window existed.
C2_MissingFileAborts ==
    /\ \A k \in 1..Len(loadedSims) :
           (\E b \in CompleteStarts(loadedSims[k]) : MissingIn(loadedSims[k], b))
           => (pc = "error" /\ raised = "FileNotFoundError" /\ k = Len(loadedSims))
    /\ raised = "FileNotFoundError"
           => (/\ loadedSims # <<>>
               /\ \E b \in CompleteStarts(loadedSims[Len(loadedSims)]) :
                      MissingIn(loadedSims[Len(loadedSims)], b))
    /\ pc = "ready"
           => \A k \in 1..Len(dataPaths) :
                 \A frame \in PyRange(dataPaths[k][2], dataPaths[k][3], dataPaths[k][4]) :
                    \A field \in SeqToSet(SimFields) :
                       <<dataPaths[k][1], field, frame>> \notin disk.missing

\* a finished dataset although a selected file is missing in the incomplete
\* trailing window of a simulation that has stored windows
C2_Witness ==
    /\ pc = "ready"
    /\ \E k \in 1..Len(loadedSims) :
        /\ WindowsOf(loadedSims[k].currentDir) # {}
        /\ \E b \in TrailingStarts(loadedSims[k]) : MissingIn(loadedSims[k], b)

\* the logged simulation a stored window belongs to
SimOf(dir) == CHOOSE sim \in SeqToSet(loadedSims) : sim.currentDir = dir

\* C3: every stored window has end - start = seqLength * seqSkip and lies in
\* the frame range of its simulation; the windows of one simulation are
\* stored in increasing order, the first starting at minFrame and each next
\* one starting where the previous one ends.
C3_WindowShape ==
    \A k \in 1..Len(dataPaths) :
        LET w == dataPaths[k]
            sim == SimOf(w[1])
        IN  /\ \E x \in SeqToSet(loadedSims) : x.currentDir = w[1]
            /\ w[3] - w[2] = sim.seqLength * sim.seqSkip
            /\ w[4] = sim.seqSkip
            /\ sim.minFrame <= w[2] /\ w[3] <= sim.maxFrame
            /\ IF k > 1 /\ dataPaths[k - 1][1] = w[1]
               THEN w[2] = dataPaths[k - 1][3]
               ELSE /\ w[2] = sim.minFrame
                    /\ \A j \in 1..(k - 1) : dataPaths[j][1] # w[1]

\* a simulation with two stored windows of stride 2, the first one starting
\* at a minFrame above 0
C3_Witness ==
    /\ pc = "ready"
    /\ \E k \in 2..Len(dataPaths) :
        /\ dataPaths[k][4] = 2
        /\ dataPaths[k - 1][1] = dataPaths[k][1]
        /\ dataPaths[k - 1][2] >= 1


\* C4: every input of a model invocation at position i comes from the
\* prediction buffer at positions i-inputSteps .. i-1, the current frame being
\* the prediction at i-1; no ground-truth frame at a position >= inputSteps is
\* read.
C4_OnlyPredictionsRead ==
    \A k \in 1..Len(modelCalls) :
        LET c == modelCalls[k]
        IN  /\ \A n \in 1..inputSteps : c.condPos[n] \in (c.i - inputSteps)..(c.i - 1)
            /\ c.data.pos = c.i - 1
            /\ c.data.buffer = "d" => c.data.pos < inputSteps

\* C5: with randSeqOffset disabled, an earlier and a later call for the same
\* index return the same sample, whatever was called in between; and no call
\* changes dataPaths (so the length stays).
C5_GetIdempotent ==
    /\ [](( ~randSeqOffset /\ kept.idx >= 0 /\ kept.idx = last.idx )
            => kept.sample = last.sample)
    /\ [][pc = "ready" => dataPaths' = dataPaths]_vars

\* two calls for the same index of a dataset with several windows, both
\* returning a sample
C5_Witness ==
    /\ ~randSeqOffset /\ DatasetLen >= 2
    /\ kept.idx >= 0 /\ kept.idx = last.idx
    /\ last.sample.status = "ok"

\* C6: with randSeqOffset enabled the window that is loaded lies in the frame
\* range of its own simulation and keeps the length and stride of the stored
\* window.
C6_OffsetInsideOwnFilter ==
    (randSeqOffset /\ last.idx >= 0 /\ last.sample.status = "ok")
    => LET w == dataPaths[last.idx + 1]
           sim == SimOf(w[1])
           got == last.sample.window
       IN  /\ sim.minFrame <= got[1] /\ got[2] <= sim.maxFrame
           /\ got[2] - got[1] = w[3] - w[2]
           /\ got[3] = w[4]

\* the name contains at least one filterTop substring
ContainsFilter(name) == \E f \in SeqToSet(filterTop) : IsSubstring(f, name)

\* C7: with a non-empty filterTop a category folder is kept exactly when
\* "contains a filterTop substring" agrees with the requested polarity, and
\* the kept folders of one data directory are processed in sorted order.
C7_TopFilter ==
    /\ filterTop # <<>>
           => \A k \in 1..Len(loadedTops) :
                 ContainsFilter(loadedTops[k][2]) = ~excludeFilterTop
    /\ (filterTop # <<>> /\ pc = "ready")
           => \A root \in SeqToSet(dataDirs) : \A name \in disk.top[root] :
                 (ContainsFilter(name) = ~excludeFilterTop)
                 => <<root, name>> \in SeqToSet(loadedTops)
    /\ \A k \in 2..Len(loadedTops) :
           loadedTops[k - 1][1] = loadedTops[k][1]
           => LexLess(loadedTops[k - 1][2], loadedTops[k][2])

\* exclude mode: a finished dataset that kept two folders of the first data
\* directory and dropped one
C7_Witness ==
    /\ pc = "ready" /\ filterTop # <<>> /\ excludeFilterTop
    /\ Len(loadedTops) >= 2 /\ loadedTops[1][1] = loadedTops[2][1]
    /\ \E name \in disk.top[dataDirs[1]] : <<dataDirs[1], name>> \notin SeqToSet(loadedTops)

\* C8: with more than one filterSim or filterFrame entry the index of a kept
\* folder is the smallest index of a filterTop entry contained in its name,
\* and construction ends in AssertionError (no dataset) when a kept folder
\* contains none; with both lists of length <= 1 nothing is resolved and that
\* error cannot occur.
C8_CategoryMatch ==
    /\ (NeedsMatch /\ pc = "init" /\ simIdx >= 1)
           => /\ match >= 0
              /\ IsSubstring(filterTop[match + 1], TopDir)
              /\ \A j \in 1..match : ~IsSubstring(filterTop[j], TopDir)
    /\ NeedsMatch => \A k \in 1..Len(loadedTops) : ContainsFilter(loadedTops[k][2])
    /\ raised = "AssertionError"
           => (NeedsMatch /\ ~TopSkipped(TopDir) /\ ~ContainsFilter(TopDir)
               /\ pc = "error")
    /\ ~NeedsMatch => (raised # "AssertionError" /\ match = -1)

\* a folder whose name contains both filterTop entries gets the first one
C8_Witness ==
    /\ NeedsMatch /\ pc = "init" /\ simIdx >= 1
    /\ filterTop = <<NameB, NameA>> /\ TopDir = NameAB /\ match = 0

\* the entry of a filter list that belongs to a folder: position 0 of a list
\* with one entry, the category index of the folder otherwise
EntryFor(list, name) == IF Len(list) = 1 THEN list[1] ELSE list[FirstMatch(name) + 1]

\* C9: the simulation filter, the frame range and the (seqLength, seqSkip)
\* pair used for a kept simulation come from position 0 of a one-entry list
\* and from the category index of the simulation in a longer list, also for
\* sequenceLength when filterSim and filterFrame have at most one entry.
C9_ListsIndexedByCategory ==
    \A k \in 1..Len(loadedSims) :
        LET sim == loadedSims[k]
            name == sim.currentDir[2]
        IN  FirstMatch(name) >= 0
            => /\ <<sim.minFrame, sim.maxFrame>> = EntryFor(filterFrame, name)
               /\ <<sim.seqLength, sim.seqSkip>> = EntryFor(sequenceLength, name)
               /\ Len(filterSim) > 0
                      => SimInside(EntryFor(filterSim, name), sim.currentDir[3])
                            # excludefilterSim

\* the four supported parameter sets and the columns they select
Presets == {{"rey", "mach"}, {"rey"}, {"mach"}, {"zslice"}}

ExpectedCols(P) ==
    (IF "rey" \in P THEN <<"Reynolds Number">> ELSE <<>>)
        \o (IF "mach" \in P THEN <<"Mach Number">> ELSE <<>>)
        \o (IF "zslice" \in P THEN <<"Z Slice">> ELSE <<>>)

\* C10: a non-empty parameter set that is none of the four presets ends in
\* ValueError; a preset gives exactly its parameters as columns in the order
\* Reynolds, Mach, z-slice; the empty set gives the empty structure (the
\* sample as __getitem__ assembles it, with no transform in between).
C10_ParamPresets ==
    (last.idx >= 0 /\ ~transform.active)
    => /\ (simParams # {} /\ simParams \notin Presets)
              => last.sample.status = "ValueError"
       /\ simParams \in Presets
              => /\ last.sample.status = "ok"
                 /\ last.sample.simParameters.kind = "array"
                 /\ last.sample.simParameters.cols = ExpectedCols(simParams)
       /\ simParams = {}
              => /\ last.sample.status = "ok"
                 /\ last.sample.simParameters.kind = "dict"

\* the length T of the current sequence
SeqT == Cardinality(DOMAIN d)

\* C12: within one sequence the buffer positions are written once each in
\* increasing order; positions below inputSteps are copies of the ground
\* truth made before any model invocation; position i >= inputSteps holds the
\* output of the one invocation made for it after position i-1 was written,
\* with the conditioning frames ordered oldest to newest; a finished sequence
\* has had exactly T - inputSteps invocations; the ground truth is unchanged.
C12_SequentialRollout ==
    /\ [](vpc \in {"warmup", "auto", "fetch", "done"} =>
           /\ Len(writes) = i
           /\ \A k \in 1..Len(writes) : writes[k] = k - 1
           /\ \A k \in 0..(Min(i, inputSteps) - 1) : prediction[k] = d[k]
           /\ modelCalls # <<>> => i > inputSteps
           /\ Len(modelCalls) = IF i > inputSteps THEN i - inputSteps ELSE 0
           /\ \A k \in 1..Len(modelCalls) :
                  /\ modelCalls[k].i = inputSteps + k - 1
                  /\ prediction[modelCalls[k].i] = modelCalls[k].result
                  /\ \A n \in 1..inputSteps :
                         /\ modelCalls[k].condPos[n] = modelCalls[k].i - inputSteps + n - 1
                         /\ modelCalls[k].cond[n] = prediction[modelCalls[k].condPos[n]]
           /\ (vpc \in {"fetch", "done"} /\ s >= 1)
                  => (i = SeqT /\ Len(modelCalls) = SeqT - inputSteps))
    /\ [][vpc # "fetch" => d' = d]_vars

\* a finished sequence with two warm-up frames and two model invocations
C12_Witness ==
    /\ vpc = "fetch" /\ s >= 1
    /\ inputSteps = 2 /\ Len(modelCalls) = 2
    /\ \E k \in DOMAIN d : d[k] # 0

\* C11: on a dataset without a transform, the "no data transformations"
\* warning is printed once, by the first access that returns a sample, and
\* never again; every sample is returned as it was loaded.
C11_WarnOnce ==
    ~transform.active =>
        /\ warnings <= 1
        /\ (last.idx >= 0 /\ last.sample.status = "ok") =>
               (warnings = 1 /\ ~last.sample.norm.applied)

\* the entry of normMean / normStd that belongs to a channel or a parameter
\* column; the arrays hold no entry for the z-slice
StatIndex(name) ==
    CASE name = "velocity-x" -> 0
      [] name = "velocity-y" -> 1
      [] name = "density" -> 2
      [] name = "pressure" -> 3
      [] name = "Reynolds Number" -> 4
      [] name = "Mach Number" -> 5
      [] OTHER -> -1

\* every column of cols met its own statistic
OwnStatistics(cols, normed) ==
    /\ Len(normed) = Len(cols)
    /\ \A k \in 1..Len(cols) :
           normed[k].of = cols[k] /\ normed[k].stat = StatIndex(cols[k])

\* C13: when the transform was built with the fields and parameters of the
\* dataset and the dataset accepts the parameter set, the sample is
\* normalized: as many statistics as data channels, every channel with the
\* statistic of its quantity, every parameter column with the statistic of
\* its parameter (index 4 or 5) and never with a field statistic.
C13_StatisticsLineUp ==
    (transform.active /\ last.idx >= 0
        /\ last.sample.status \notin {"ValueError", "FileNotFoundError"})
    => /\ last.sample.status = "ok"
       /\ last.sample.norm.applied
       /\ OwnStatistics(last.sample.data, last.sample.norm.data)
       /\ last.sample.simParameters.kind = "array"
              => /\ OwnStatistics(last.sample.simParameters.cols, last.sample.norm.params)
                 /\ \A k \in 1..Len(last.sample.norm.params) :
                        last.sample.norm.params[k].stat \in {4, 5}

\* the files whose existence the finished construction has tested: every
\* field of every frame of every stored window
CheckedFiles == UNION {LoadedFiles(dataPaths[k]) : k \in 1..Len(dataPaths)}

\* C14: on an unchanged disk every file a sample access loads was tested for
\* existence by the construction, so no access ends in a missing file.
C14_LoadsOnlyCheckedFiles ==
    last.idx >= 0
    => /\ last.sample.status # "FileNotFoundError"
       /\ last.sample.files \subseteq CheckedFiles
====
